---- MODULE Spec2Model ----
(***************************************************************************)
(* Model of scripts/fix-unused-imports.py: the TS6133 diagnostic parser    *)
(* (parse_unused_errors), the line editor (fix_unused_import) and the      *)
(* driver loop (main).                                                     *)
(*                                                                         *)
(* Text is modelled character by character: a character is its Unicode     *)
(* code point, a string is a sequence of code points, a file on disk is    *)
(* the sequence of the characters it decodes to.  The regular expressions  *)
(* of the script are written as sequences of pattern nodes and matched by  *)
(* a small matcher that follows Python's re semantics for the constructs   *)
(* the script uses (str patterns: \s, \d, \w and \b are Unicode-aware).    *)
(* The character tables are those of CPython 3.11 (Unicode 14.0.0); the    *)
(* platform is POSIX (os.linesep is "\n") with a UTF-8 locale.             *)
(***************************************************************************)
EXTENDS Integers, Sequences, FiniteSets, TLC

(***************************************************************************)
(* Characters and character classes                                        *)
(***************************************************************************)
\* the printable ASCII characters, U+0020 to U+007E in order (the grave
\* accent U+0060, which no literal of the script holds, is left out)
Printable ==
    <<" ", "!", "\"", "#", "$", "%", "&", "'", "(", ")", "*", "+", ",", "-",
      ".", "/", "0", "1", "2", "3", "4", "5", "6", "7", "8", "9", ":", ";",
      "<", "=", ">", "?", "@", "A", "B", "C", "D", "E", "F", "G", "H", "I",
      "J", "K", "L", "M", "N", "O", "P", "Q", "R", "S", "T", "U", "V", "W",
      "X", "Y", "Z", "[", "\\", "]", "^", "_", "a", "b", "c", "d", "e",
      "f", "g", "h", "i", "j", "k", "l", "m", "n", "o", "p", "q", "r", "s",
      "t", "u", "v", "w", "x", "y", "z", "{", "|", "}", "~">>

\* the code point of a printable ASCII character
CodePoint ==
    [c \in {Printable[i] : i \in 1..Len(Printable)} |->
       LET i == CHOOSE i \in 1..Len(Printable) : Printable[i] = c
       IN  IF i <= 64 THEN 31 + i ELSE 32 + i]

ord(c) == CodePoint[c]

\* a string literal of the script, written character by character
Str(s) == [i \in 1..Len(s) |-> ord(s[i])]

NL == 10

CR == 13

\* what stands in a file's content for bytes that do not decode to a
\* character (a character cut short by a failed write)
Undecodable == 0 - 1

\* \s of Python's re on a str pattern: str.isspace()
Space ==
    (9..13) \cup (28..32) \cup {133, 160, 5760} \cup (8192..8202)
    \cup {8232, 8233, 8239, 8287, 12288}

\* the digit zero of every script that has decimal digits (category Nd);
\* the nine code points after a zero are its digits 1 to 9
DigitZeros ==
    {48, 1632, 1776, 1984, 2406, 2534, 2662, 2790, 2918, 3046, 3174, 3302,
     3430, 3558, 3664, 3792, 3872, 4160, 4240, 6112, 6160, 6470, 6608, 6784,
     6800, 6992, 7088, 7232, 7248, 42528, 43216, 43264, 43472, 43504, 43600,
     44016, 65296, 66720, 68912, 69734, 69872, 69942, 70096, 70384, 70736,
     70864, 71248, 71360, 71472, 71904, 72016, 72784, 73040, 73120, 92768,
     92864, 93008, 120782, 120792, 120802, 120812, 120822, 123200, 123632,
     125264, 130032}

\* \d of Python's re on a str pattern, also the digits int() accepts
Digits == UNION {z..(z + 9) : z \in DigitZeros}

\* the value int() gives a digit
DigitValue(c) == c - (CHOOSE z \in DigitZeros : z <= c /\ c <= z + 9)

\* the ranges of code points that are alphanumeric (str.isalnum()) or "_"
WordRanges ==
    {<<48,57>>, <<65,90>>, <<95,95>>, <<97,122>>, <<170,170>>, <<178,179>>,
     <<181,181>>, <<185,186>>, <<188,190>>, <<192,214>>, <<216,246>>,
     <<248,705>>, <<710,721>>, <<736,740>>, <<748,748>>, <<750,750>>,
     <<880,884>>, <<886,887>>, <<890,893>>, <<895,895>>, <<902,902>>,
     <<904,906>>, <<908,908>>, <<910,929>>, <<931,1013>>, <<1015,1153>>,
     <<1162,1327>>, <<1329,1366>>, <<1369,1369>>, <<1376,1416>>,
     <<1488,1514>>, <<1519,1522>>, <<1568,1610>>, <<1632,1641>>,
     <<1646,1647>>, <<1649,1747>>, <<1749,1749>>, <<1765,1766>>,
     <<1774,1788>>, <<1791,1791>>, <<1808,1808>>, <<1810,1839>>,
     <<1869,1957>>, <<1969,1969>>, <<1984,2026>>, <<2036,2037>>,
     <<2042,2042>>, <<2048,2069>>, <<2074,2074>>, <<2084,2084>>,
     <<2088,2088>>, <<2112,2136>>, <<2144,2154>>, <<2160,2183>>,
     <<2185,2190>>, <<2208,2249>>, <<2308,2361>>, <<2365,2365>>,
     <<2384,2384>>, <<2392,2401>>, <<2406,2415>>, <<2417,2432>>,
     <<2437,2444>>, <<2447,2448>>, <<2451,2472>>, <<2474,2480>>,
     <<2482,2482>>, <<2486,2489>>, <<2493,2493>>, <<2510,2510>>,
     <<2524,2525>>, <<2527,2529>>, <<2534,2545>>, <<2548,2553>>,
     <<2556,2556>>, <<2565,2570>>, <<2575,2576>>, <<2579,2600>>,
     <<2602,2608>>, <<2610,2611>>, <<2613,2614>>, <<2616,2617>>,
     <<2649,2652>>, <<2654,2654>>, <<2662,2671>>, <<2674,2676>>,
     <<2693,2701>>, <<2703,2705>>, <<2707,2728>>, <<2730,2736>>,
     <<2738,2739>>, <<2741,2745>>, <<2749,2749>>, <<2768,2768>>,
     <<2784,2785>>, <<2790,2799>>, <<2809,2809>>, <<2821,2828>>,
     <<2831,2832>>, <<2835,2856>>, <<2858,2864>>, <<2866,2867>>,
     <<2869,2873>>, <<2877,2877>>, <<2908,2909>>, <<2911,2913>>,
     <<2918,2927>>, <<2929,2935>>, <<2947,2947>>, <<2949,2954>>,
     <<2958,2960>>, <<2962,2965>>, <<2969,2970>>, <<2972,2972>>,
     <<2974,2975>>, <<2979,2980>>, <<2984,2986>>, <<2990,3001>>,
     <<3024,3024>>, <<3046,3058>>, <<3077,3084>>, <<3086,3088>>,
     <<3090,3112>>, <<3114,3129>>, <<3133,3133>>, <<3160,3162>>,
     <<3165,3165>>, <<3168,3169>>, <<3174,3183>>, <<3192,3198>>,
     <<3200,3200>>, <<3205,3212>>, <<3214,3216>>, <<3218,3240>>,
     <<3242,3251>>, <<3253,3257>>, <<3261,3261>>, <<3293,3294>>,
     <<3296,3297>>, <<3302,3311>>, <<3313,3314>>, <<3332,3340>>,
     <<3342,3344>>, <<3346,3386>>, <<3389,3389>>, <<3406,3406>>,
     <<3412,3414>>, <<3416,3425>>, <<3430,3448>>, <<3450,3455>>,
     <<3461,3478>>, <<3482,3505>>, <<3507,3515>>, <<3517,3517>>,
     <<3520,3526>>, <<3558,3567>>, <<3585,3632>>, <<3634,3635>>,
     <<3648,3654>>, <<3664,3673>>, <<3713,3714>>, <<3716,3716>>,
     <<3718,3722>>, <<3724,3747>>, <<3749,3749>>, <<3751,3760>>,
     <<3762,3763>>, <<3773,3773>>, <<3776,3780>>, <<3782,3782>>,
     <<3792,3801>>, <<3804,3807>>, <<3840,3840>>, <<3872,3891>>,
     <<3904,3911>>, <<3913,3948>>, <<3976,3980>>, <<4096,4138>>,
     <<4159,4169>>, <<4176,4181>>, <<4186,4189>>, <<4193,4193>>,
     <<4197,4198>>, <<4206,4208>>, <<4213,4225>>, <<4238,4238>>,
     <<4240,4249>>, <<4256,4293>>, <<4295,4295>>, <<4301,4301>>,
     <<4304,4346>>, <<4348,4680>>, <<4682,4685>>, <<4688,4694>>,
     <<4696,4696>>, <<4698,4701>>, <<4704,4744>>, <<4746,4749>>,
     <<4752,4784>>, <<4786,4789>>, <<4792,4798>>, <<4800,4800>>,
     <<4802,4805>>, <<4808,4822>>, <<4824,4880>>, <<4882,4885>>,
     <<4888,4954>>, <<4969,4988>>, <<4992,5007>>, <<5024,5109>>,
     <<5112,5117>>, <<5121,5740>>, <<5743,5759>>, <<5761,5786>>,
     <<5792,5866>>, <<5870,5880>>, <<5888,5905>>, <<5919,5937>>,
     <<5952,5969>>, <<5984,5996>>, <<5998,6000>>, <<6016,6067>>,
     <<6103,6103>>, <<6108,6108>>, <<6112,6121>>, <<6128,6137>>,
     <<6160,6169>>, <<6176,6264>>, <<6272,6276>>, <<6279,6312>>,
     <<6314,6314>>, <<6320,6389>>, <<6400,6430>>, <<6470,6509>>,
     <<6512,6516>>, <<6528,6571>>, <<6576,6601>>, <<6608,6618>>,
     <<6656,6678>>, <<6688,6740>>, <<6784,6793>>, <<6800,6809>>,
     <<6823,6823>>, <<6917,6963>>, <<6981,6988>>, <<6992,7001>>,
     <<7043,7072>>, <<7086,7141>>, <<7168,7203>>, <<7232,7241>>,
     <<7245,7293>>, <<7296,7304>>, <<7312,7354>>, <<7357,7359>>,
     <<7401,7404>>, <<7406,7411>>, <<7413,7414>>, <<7418,7418>>,
     <<7424,7615>>, <<7680,7957>>, <<7960,7965>>, <<7968,8005>>,
     <<8008,8013>>, <<8016,8023>>, <<8025,8025>>, <<8027,8027>>,
     <<8029,8029>>, <<8031,8061>>, <<8064,8116>>, <<8118,8124>>,
     <<8126,8126>>, <<8130,8132>>, <<8134,8140>>, <<8144,8147>>,
     <<8150,8155>>, <<8160,8172>>, <<8178,8180>>, <<8182,8188>>,
     <<8304,8305>>, <<8308,8313>>, <<8319,8329>>, <<8336,8348>>,
     <<8450,8450>>, <<8455,8455>>, <<8458,8467>>, <<8469,8469>>,
     <<8473,8477>>, <<8484,8484>>, <<8486,8486>>, <<8488,8488>>,
     <<8490,8493>>, <<8495,8505>>, <<8508,8511>>, <<8517,8521>>,
     <<8526,8526>>, <<8528,8585>>, <<9312,9371>>, <<9450,9471>>,
     <<10102,10131>>, <<11264,11492>>, <<11499,11502>>, <<11506,11507>>,
     <<11517,11517>>, <<11520,11557>>, <<11559,11559>>, <<11565,11565>>,
     <<11568,11623>>, <<11631,11631>>, <<11648,11670>>, <<11680,11686>>,
     <<11688,11694>>, <<11696,11702>>, <<11704,11710>>, <<11712,11718>>,
     <<11720,11726>>, <<11728,11734>>, <<11736,11742>>, <<11823,11823>>,
     <<12293,12295>>, <<12321,12329>>, <<12337,12341>>, <<12344,12348>>,
     <<12353,12438>>, <<12445,12447>>, <<12449,12538>>, <<12540,12543>>,
     <<12549,12591>>, <<12593,12686>>, <<12690,12693>>, <<12704,12735>>,
     <<12784,12799>>, <<12832,12841>>, <<12872,12879>>, <<12881,12895>>,
     <<12928,12937>>, <<12977,12991>>, <<13312,19903>>, <<19968,42124>>,
     <<42192,42237>>, <<42240,42508>>, <<42512,42539>>, <<42560,42606>>,
     <<42623,42653>>, <<42656,42735>>, <<42775,42783>>, <<42786,42888>>,
     <<42891,42954>>, <<42960,42961>>, <<42963,42963>>, <<42965,42969>>,
     <<42994,43009>>, <<43011,43013>>, <<43015,43018>>, <<43020,43042>>,
     <<43056,43061>>, <<43072,43123>>, <<43138,43187>>, <<43216,43225>>,
     <<43250,43255>>, <<43259,43259>>, <<43261,43262>>, <<43264,43301>>,
     <<43312,43334>>, <<43360,43388>>, <<43396,43442>>, <<43471,43481>>,
     <<43488,43492>>, <<43494,43518>>, <<43520,43560>>, <<43584,43586>>,
     <<43588,43595>>, <<43600,43609>>, <<43616,43638>>, <<43642,43642>>,
     <<43646,43695>>, <<43697,43697>>, <<43701,43702>>, <<43705,43709>>,
     <<43712,43712>>, <<43714,43714>>, <<43739,43741>>, <<43744,43754>>,
     <<43762,43764>>, <<43777,43782>>, <<43785,43790>>, <<43793,43798>>,
     <<43808,43814>>, <<43816,43822>>, <<43824,43866>>, <<43868,43881>>,
     <<43888,44002>>, <<44016,44025>>, <<44032,55203>>, <<55216,55238>>,
     <<55243,55291>>, <<63744,64109>>, <<64112,64217>>, <<64256,64262>>,
     <<64275,64279>>, <<64285,64285>>, <<64287,64296>>, <<64298,64310>>,
     <<64312,64316>>, <<64318,64318>>, <<64320,64321>>, <<64323,64324>>,
     <<64326,64433>>, <<64467,64829>>, <<64848,64911>>, <<64914,64967>>,
     <<65008,65019>>, <<65136,65140>>, <<65142,65276>>, <<65296,65305>>,
     <<65313,65338>>, <<65345,65370>>, <<65382,65470>>, <<65474,65479>>,
     <<65482,65487>>, <<65490,65495>>, <<65498,65500>>, <<65536,65547>>,
     <<65549,65574>>, <<65576,65594>>, <<65596,65597>>, <<65599,65613>>,
     <<65616,65629>>, <<65664,65786>>, <<65799,65843>>, <<65856,65912>>,
     <<65930,65931>>, <<66176,66204>>, <<66208,66256>>, <<66273,66299>>,
     <<66304,66339>>, <<66349,66378>>, <<66384,66421>>, <<66432,66461>>,
     <<66464,66499>>, <<66504,66511>>, <<66513,66517>>, <<66560,66717>>,
     <<66720,66729>>, <<66736,66771>>, <<66776,66811>>, <<66816,66855>>,
     <<66864,66915>>, <<66928,66938>>, <<66940,66954>>, <<66956,66962>>,
     <<66964,66965>>, <<66967,66977>>, <<66979,66993>>, <<66995,67001>>,
     <<67003,67004>>, <<67072,67382>>, <<67392,67413>>, <<67424,67431>>,
     <<67456,67461>>, <<67463,67504>>, <<67506,67514>>, <<67584,67589>>,
     <<67592,67592>>, <<67594,67637>>, <<67639,67640>>, <<67644,67644>>,
     <<67647,67669>>, <<67672,67702>>, <<67705,67742>>, <<67751,67759>>,
     <<67808,67826>>, <<67828,67829>>, <<67835,67867>>, <<67872,67897>>,
     <<67968,68023>>, <<68028,68047>>, <<68050,68096>>, <<68112,68115>>,
     <<68117,68119>>, <<68121,68149>>, <<68160,68168>>, <<68192,68222>>,
     <<68224,68255>>, <<68288,68295>>, <<68297,68324>>, <<68331,68335>>,
     <<68352,68405>>, <<68416,68437>>, <<68440,68466>>, <<68472,68497>>,
     <<68521,68527>>, <<68608,68680>>, <<68736,68786>>, <<68800,68850>>,
     <<68858,68899>>, <<68912,68921>>, <<69216,69246>>, <<69248,69289>>,
     <<69296,69297>>, <<69376,69415>>, <<69424,69445>>, <<69457,69460>>,
     <<69488,69505>>, <<69552,69579>>, <<69600,69622>>, <<69635,69687>>,
     <<69714,69743>>, <<69745,69746>>, <<69749,69749>>, <<69763,69807>>,
     <<69840,69864>>, <<69872,69881>>, <<69891,69926>>, <<69942,69951>>,
     <<69956,69956>>, <<69959,69959>>, <<69968,70002>>, <<70006,70006>>,
     <<70019,70066>>, <<70081,70084>>, <<70096,70106>>, <<70108,70108>>,
     <<70113,70132>>, <<70144,70161>>, <<70163,70187>>, <<70272,70278>>,
     <<70280,70280>>, <<70282,70285>>, <<70287,70301>>, <<70303,70312>>,
     <<70320,70366>>, <<70384,70393>>, <<70405,70412>>, <<70415,70416>>,
     <<70419,70440>>, <<70442,70448>>, <<70450,70451>>, <<70453,70457>>,
     <<70461,70461>>, <<70480,70480>>, <<70493,70497>>, <<70656,70708>>,
     <<70727,70730>>, <<70736,70745>>, <<70751,70753>>, <<70784,70831>>,
     <<70852,70853>>, <<70855,70855>>, <<70864,70873>>, <<71040,71086>>,
     <<71128,71131>>, <<71168,71215>>, <<71236,71236>>, <<71248,71257>>,
     <<71296,71338>>, <<71352,71352>>, <<71360,71369>>, <<71424,71450>>,
     <<71472,71483>>, <<71488,71494>>, <<71680,71723>>, <<71840,71922>>,
     <<71935,71942>>, <<71945,71945>>, <<71948,71955>>, <<71957,71958>>,
     <<71960,71983>>, <<71999,71999>>, <<72001,72001>>, <<72016,72025>>,
     <<72096,72103>>, <<72106,72144>>, <<72161,72161>>, <<72163,72163>>,
     <<72192,72192>>, <<72203,72242>>, <<72250,72250>>, <<72272,72272>>,
     <<72284,72329>>, <<72349,72349>>, <<72368,72440>>, <<72704,72712>>,
     <<72714,72750>>, <<72768,72768>>, <<72784,72812>>, <<72818,72847>>,
     <<72960,72966>>, <<72968,72969>>, <<72971,73008>>, <<73030,73030>>,
     <<73040,73049>>, <<73056,73061>>, <<73063,73064>>, <<73066,73097>>,
     <<73112,73112>>, <<73120,73129>>, <<73440,73458>>, <<73648,73648>>,
     <<73664,73684>>, <<73728,74649>>, <<74752,74862>>, <<74880,75075>>,
     <<77712,77808>>, <<77824,78894>>, <<82944,83526>>, <<92160,92728>>,
     <<92736,92766>>, <<92768,92777>>, <<92784,92862>>, <<92864,92873>>,
     <<92880,92909>>, <<92928,92975>>, <<92992,92995>>, <<93008,93017>>,
     <<93019,93025>>, <<93027,93047>>, <<93053,93071>>, <<93760,93846>>,
     <<93952,94026>>, <<94032,94032>>, <<94099,94111>>, <<94176,94177>>,
     <<94179,94179>>, <<94208,100343>>, <<100352,101589>>, <<101632,101640>>,
     <<110576,110579>>, <<110581,110587>>, <<110589,110590>>,
     <<110592,110882>>, <<110928,110930>>, <<110948,110951>>,
     <<110960,111355>>, <<113664,113770>>, <<113776,113788>>,
     <<113792,113800>>, <<113808,113817>>, <<119520,119539>>,
     <<119648,119672>>, <<119808,119892>>, <<119894,119964>>,
     <<119966,119967>>, <<119970,119970>>, <<119973,119974>>,
     <<119977,119980>>, <<119982,119993>>, <<119995,119995>>,
     <<119997,120003>>, <<120005,120069>>, <<120071,120074>>,
     <<120077,120084>>, <<120086,120092>>, <<120094,120121>>,
     <<120123,120126>>, <<120128,120132>>, <<120134,120134>>,
     <<120138,120144>>, <<120146,120485>>, <<120488,120512>>,
     <<120514,120538>>, <<120540,120570>>, <<120572,120596>>,
     <<120598,120628>>, <<120630,120654>>, <<120656,120686>>,
     <<120688,120712>>, <<120714,120744>>, <<120746,120770>>,
     <<120772,120779>>, <<120782,120831>>, <<122624,122654>>,
     <<123136,123180>>, <<123191,123197>>, <<123200,123209>>,
     <<123214,123214>>, <<123536,123565>>, <<123584,123627>>,
     <<123632,123641>>, <<124896,124902>>, <<124904,124907>>,
     <<124909,124910>>, <<124912,124926>>, <<124928,125124>>,
     <<125127,125135>>, <<125184,125251>>, <<125259,125259>>,
     <<125264,125273>>, <<126065,126123>>, <<126125,126127>>,
     <<126129,126132>>, <<126209,126253>>, <<126255,126269>>,
     <<126464,126467>>, <<126469,126495>>, <<126497,126498>>,
     <<126500,126500>>, <<126503,126503>>, <<126505,126514>>,
     <<126516,126519>>, <<126521,126521>>, <<126523,126523>>,
     <<126530,126530>>, <<126535,126535>>, <<126537,126537>>,
     <<126539,126539>>, <<126541,126543>>, <<126545,126546>>,
     <<126548,126548>>, <<126551,126551>>, <<126553,126553>>,
     <<126555,126555>>, <<126557,126557>>, <<126559,126559>>,
     <<126561,126562>>, <<126564,126564>>, <<126567,126570>>,
     <<126572,126578>>, <<126580,126583>>, <<126585,126588>>,
     <<126590,126590>>, <<126592,126601>>, <<126603,126619>>,
     <<126625,126627>>, <<126629,126633>>, <<126635,126651>>,
     <<127232,127244>>, <<130032,130041>>, <<131072,173791>>,
     <<173824,177976>>, <<177984,178205>>, <<178208,183969>>,
     <<183984,191456>>, <<194560,195101>>, <<196608,201546>>}

\* \w of Python's re on a str pattern; \b is a change of \w-ness
WordChars == UNION {r[1]..r[2] : r \in WordRanges}

(***************************************************************************)
(* Sequence helpers                                                        *)
(***************************************************************************)
Max(S) == CHOOSE x \in S : \A y \in S : y <= x

Min(S) == CHOOSE x \in S : \A y \in S : x <= y

\* s[i..]
Tail_(s, i) == SubSeq(s, i, Len(s))

\* the first n elements of s (all of s when it is shorter)
Prefix(s, n) == [i \in 1..Min({n, Len(s)}) |-> s[i]]

\* does the literal lit occur in s at position i
At(lit, s, i) ==
    /\ i + Len(lit) - 1 <= Len(s)
    /\ \A k \in 1..Len(lit) : s[i + k - 1] = lit[k]

\* Python's `sub in s`
Contains(sub, s) == \E i \in 1..(Len(s) - Len(sub) + 1) : At(sub, s, i)

\* 1, 2, ..., n
Indices(n) == [i \in 1..n |-> i]

RECURSIVE Concat(_)
\* ''.join(parts)
Concat(parts) ==
    IF parts = <<>> THEN <<>>
    ELSE IF Len(parts) = 1 THEN parts[1]
    ELSE LET h == Len(parts) \div 2 IN
         Concat(SubSeq(parts, 1, h)) \o Concat(SubSeq(parts, h + 1, Len(parts)))

(***************************************************************************)
(* Regular expressions: a pattern is a sequence of nodes                   *)
(***************************************************************************)
\* a literal string (also what re.escape(variable_name) denotes)
Lit(s) == [t |-> "lit", s |-> s, cs |-> {}, neg |-> FALSE, alts |-> {}]

\* [cs]*  (neg: [^cs]*), greedy
Star(cs) == [t |-> "star", s |-> <<>>, cs |-> cs, neg |-> FALSE, alts |-> {}]

NotStar(cs) == [t |-> "star", s |-> <<>>, cs |-> cs, neg |-> TRUE, alts |-> {}]

\* [cs]+
Plus(cs) == [t |-> "plus", s |-> <<>>, cs |-> cs, neg |-> FALSE, alts |-> {}]

\* \b
WB == [t |-> "wb", s |-> <<>>, cs |-> {}, neg |-> FALSE, alts |-> {}]

\* ^
Bol == [t |-> "bol", s |-> <<>>, cs |-> {}, neg |-> FALSE, alts |-> {}]

\* (a|b|c) over literals
Alt(lits) == [t |-> "alt", s |-> <<>>, cs |-> {}, neg |-> FALSE, alts |-> lits]

\* .* : any run of characters other than a newline
DotStar == NotStar({NL})

InClass(node, c) == (c \in node.cs) # node.neg

IsWordAt(s, i) == i >= 1 /\ i <= Len(s) /\ s[i] \in WordChars

\* \b holds between s[i-1] and s[i]
WordBoundary(s, i) == IsWordAt(s, i - 1) # IsWordAt(s, i)

\* the position after the longest run of characters of node's class from i
RunEnd(node, s, i) ==
    Min({j \in i..(Len(s) + 1) : j > Len(s) \/ ~InClass(node, s[j])})

\* the positions at which a match of the node n that starts at i can end
Advance(n, s, i) ==
    CASE n.t = "lit" -> IF At(n.s, s, i) THEN {i + Len(n.s)} ELSE {}
      [] n.t = "star" -> i..RunEnd(n, s, i)
      [] n.t = "plus" -> (i + 1)..RunEnd(n, s, i)
      [] n.t = "wb" -> IF WordBoundary(s, i) THEN {i} ELSE {}
      [] n.t = "bol" -> IF i = 1 THEN {i} ELSE {}
      [] n.t = "alt" -> {i + Len(a) : a \in {x \in n.alts : At(x, s, i)}}

RECURSIVE Ends(_, _, _, _)
\* the positions at which a match of re[k..] that starts at i can end
Ends(re, k, s, i) ==
    IF k > Len(re) THEN {i}
    ELSE UNION {Ends(re, k + 1, s, j) : j \in Advance(re[k], s, i)}

\* re.search(re, s) is not None
Search(re, s) == \E i \in 1..(Len(s) + 1) : Ends(re, 1, s, i) # {}

\* for every position of s, the ends of the matches of re that start there
MatchEnds(re, s) == [p \in 1..Len(s) |-> Ends(re, 1, s, p)]

\* the start of the leftmost non-empty match at or after i, 0 when there is none
FirstHit(ends, i) ==
    LET hits == {p \in i..Len(ends) : ends[p] # {} /\ Max(ends[p]) > p}
    IN  IF hits = {} THEN 0 ELSE Min(hits)

RECURSIVE SubFrom(_, _, _, _)
\* re.sub(re, repl, s) from position i on: leftmost matches, not overlapping.
\* Every pattern substituted here ends in a literal or \b after its last
\* greedy run, so a match that starts at p has one possible end.
SubFrom(ends, repl, s, i) ==
    LET p == FirstHit(ends, i)
    IN  IF p = 0 THEN Tail_(s, i)
        ELSE SubSeq(s, i, p - 1) \o repl \o SubFrom(ends, repl, s, Max(ends[p]))

\* re.sub(re, repl, s), the matches computed once
Sub(re, repl, s) ==
    CHOOSE out \in {SubFrom(ends, repl, s, 1) : ends \in {MatchEnds(re, s)}} : TRUE

(***************************************************************************)
(* Literals of the script                                                  *)
(***************************************************************************)
kw_import == Str(<<"i","m","p","o","r","t">>)

kw_from == Str(<<"f","r","o","m">>)

kw_as == Str(<<"a","s">>)

kw_const == Str(<<"c","o","n","s","t">>)

kw_let == Str(<<"l","e","t">>)

kw_var == Str(<<"v","a","r">>)

\* 'import {} from'
EmptyImport == Str(<<"i","m","p","o","r","t"," ","{","}"," ","f","r","o","m">>)

(***************************************************************************)
(* The patterns of fix_unused_import, v the variable name                  *)
(***************************************************************************)
\* import\s*{[^}]*\bV\b[^}]*}
NamedImportRe(v) ==
    <<Lit(kw_import), Star(Space), Lit(Str(<<"{">>)), NotStar({ord("}")}), WB, Lit(v), WB,
      NotStar({ord("}")}), Lit(Str(<<"}">>))>>

\* ,\s*V\b
CommaBeforeRe(v) == <<Lit(Str(<<",">>)), Star(Space), Lit(v), WB>>

\* \bV\s*,
CommaAfterRe(v) == <<WB, Lit(v), Star(Space), Lit(Str(<<",">>))>>

\* \bV\b
WordRe(v) == <<WB, Lit(v), WB>>

\* import\s*{\s*}\s*from
EmptyImportRe ==
    <<Lit(kw_import), Star(Space), Lit(Str(<<"{">>)), Star(Space), Lit(Str(<<"}">>)),
      Star(Space), Lit(kw_from)>>

\* import\s+V\s+from
DefaultImportRe(v) ==
    <<Lit(kw_import), Plus(Space), Lit(v), Plus(Space), Lit(kw_from)>>

\* import\s*\*\s*as\s+V\s+from
NamespaceImportRe(v) ==
    <<Lit(kw_import), Star(Space), Lit(Str(<<"*">>)), Star(Space), Lit(kw_as),
      Plus(Space), Lit(v), Plus(Space), Lit(kw_from)>>

\* ^\s*(const|let|var)\s+.*\bV\b
DeclarationRe(v) ==
    <<Bol, Star(Space), Alt({kw_const, kw_let, kw_var}), Plus(Space), DotStar,
      WB, Lit(v), WB>>

\* const\s*{\s*[^}]*\bV\b[^}]*}\s*=
DestructuringRe(v) ==
    <<Lit(kw_const), Star(Space), Lit(Str(<<"{">>)), Star(Space), NotStar({ord("}")}), WB,
      Lit(v), WB, NotStar({ord("}")}), Lit(Str(<<"}">>)), Star(Space), Lit(Str(<<"=">>))>>

\* mutant: the substitution of the bare identifier left out
RemoveVariable_CommasOnly(line, v) ==
    Sub(CommaAfterRe(v), <<>>, Sub(CommaBeforeRe(v), <<>>, line))

\* the three substitutions that take the variable out of a line
RemoveVariable(line, v) ==
    LET a == Sub(CommaBeforeRe(v), <<>>, line)
        b == Sub(CommaAfterRe(v), <<>>, a)
    IN  Sub(WordRe(v), <<>>, b)

\* One iteration of the loop over the lines: what is appended to new_lines
\* (out: a sequence of no or one line) and whether modified is set.
FixLine(line, v) ==
    IF Contains(kw_import, line) /\ Contains(v, line)
    THEN IF Search(NamedImportRe(v), line)
         THEN LET new_line == Sub(EmptyImportRe, EmptyImport, RemoveVariable(line, v))
              IN  IF Search(EmptyImportRe, new_line)
                  THEN [out |-> <<>>, modified |-> TRUE]
                  ELSE [out |-> <<new_line>>, modified |-> TRUE]
         ELSE IF Search(DefaultImportRe(v), line)
         THEN [out |-> <<>>, modified |-> TRUE]
         ELSE IF Search(NamespaceImportRe(v), line)
         THEN [out |-> <<>>, modified |-> TRUE]
         ELSE [out |-> <<line>>, modified |-> FALSE]
    ELSE IF Search(DeclarationRe(v), line) /\ Search(DestructuringRe(v), line)
         THEN [out |-> <<RemoveVariable(line, v)>>, modified |-> TRUE]
         ELSE [out |-> <<line>>, modified |-> FALSE]

(***************************************************************************)
(* fix_unused_import on a file                                             *)
(***************************************************************************)
\* can the file be decoded: open(file_path, 'r') reads text in the locale's
\* encoding and raises UnicodeDecodeError on bytes that are no character
Decodable(content) == \A i \in 1..Len(content) : content[i] # Undecodable

\* text mode with newline=None (open(file_path, 'r'), and text=True of
\* subprocess.run): "\r\n" and a lone "\r" are read as "\n"
UniversalNewlines(content) ==
    LET Kept(i) == ~(content[i] = NL /\ i > 1 /\ content[i - 1] = CR)
        at == SelectSeq(Indices(Len(content)), Kept)
    IN  [j \in 1..Len(at) |-> IF content[at[j]] = CR THEN NL ELSE content[at[j]]]

\* a text cut after each "\n", every line keeping its "\n"
KeepEnds(text) ==
    LET IsEnd(i) == text[i] = NL
        ends == SelectSeq(Indices(Len(text)), IsEnd)
        n == Len(ends)
        whole == n > 0 /\ ends[n] = Len(text)
    IN  [j \in 1..(IF whole \/ text = <<>> THEN n ELSE n + 1) |->
           SubSeq(text, IF j = 1 THEN 1 ELSE ends[j - 1] + 1,
                        IF j <= n THEN ends[j] ELSE Len(text))]

\* f.readlines(): the lines of a file, each with its newline
ReadLines(content) == KeepEnds(UniversalNewlines(content))

\* the loop over the lines: new_lines and modified when it ends
FixLines(lines, v) ==
    LET done == [i \in 1..Len(lines) |-> FixLine(lines[i], v)]
        Appended(r) == r.out # <<>>
        kept == SelectSeq(done, Appended)
    IN  [new_lines |-> [j \in 1..Len(kept) |-> kept[j].out[1]],
         modified |-> \E i \in 1..Len(lines) : done[i].modified]

\* the bytes a character takes in the file (UTF-8)
Utf8Len(c) == IF c < 128 THEN 1 ELSE IF c < 2048 THEN 2 ELSE IF c < 65536 THEN 3 ELSE 4

\* len(text.encode())
ByteLen(text) ==
    Len(text) + Cardinality({i \in 1..Len(text) : text[i] >= 128})
    + Cardinality({i \in 1..Len(text) : text[i] >= 2048})
    + Cardinality({i \in 1..Len(text) : text[i] >= 65536})

RECURSIVE TruncatedIn(_, _, _, _)
\* the part of text[lo..hi] that fits in `bytes` bytes, halving the range
TruncatedIn(text, lo, hi, bytes) ==
    IF lo > hi \/ bytes = 0 THEN <<>>
    ELSE IF lo = hi
    THEN IF Utf8Len(text[lo]) <= bytes THEN <<text[lo]>> ELSE <<Undecodable>>
    ELSE LET mid == (lo + hi) \div 2
             left == ByteLen(SubSeq(text, lo, mid))
         IN  IF left <= bytes
             THEN SubSeq(text, lo, mid) \o TruncatedIn(text, mid + 1, hi, bytes - left)
             ELSE TruncatedIn(text, lo, mid, bytes)

\* what a file holds when only the first `bytes` bytes of text reached it:
\* the characters that fit, and the rest of a character cut short
Truncated(text, bytes) == TruncatedIn(text, 1, Len(text), bytes)

\* What the environment does to the call's file operations: nothing, or an
\* exception from open(file_path, 'r') or the read, from open(file_path, 'w'),
\* or from writing (writelines, or the flush when the file is closed) after
\* only the first `bytes` bytes of the new text reached the disk.
IOKinds == {"ok", "read_error", "open_error", "write_error"}

\* mutant: `return True` outside `if modified:`
WriteBack_ReturnsTrueUnmodified(content, r, io, bytes) ==
    IF io = "read_error" \/ ~Decodable(content)
    THEN [content |-> content, ret |-> FALSE, failed |-> TRUE, wrote |-> FALSE]
    ELSE IF ~r.modified
    THEN [content |-> content, ret |-> TRUE, failed |-> FALSE, wrote |-> FALSE]
    ELSE IF io = "open_error"
    THEN [content |-> content, ret |-> FALSE, failed |-> TRUE, wrote |-> FALSE]
    ELSE IF io = "write_error"
    THEN [content |-> Truncated(Concat(r.new_lines), bytes),
          ret |-> FALSE, failed |-> TRUE, wrote |-> TRUE]
    ELSE [content |-> Concat(r.new_lines), ret |-> TRUE, failed |-> FALSE,
          wrote |-> TRUE]

\* mutant: the exception handler returns True
WriteBack_TrueOnException(content, r, io, bytes) ==
    IF io = "read_error" \/ ~Decodable(content)
    THEN [content |-> content, ret |-> TRUE, failed |-> TRUE, wrote |-> FALSE]
    ELSE IF ~r.modified
    THEN [content |-> content, ret |-> FALSE, failed |-> FALSE, wrote |-> FALSE]
    ELSE IF io = "open_error"
    THEN [content |-> content, ret |-> TRUE, failed |-> TRUE, wrote |-> FALSE]
    ELSE IF io = "write_error"
    THEN [content |-> Truncated(Concat(r.new_lines), bytes),
          ret |-> TRUE, failed |-> TRUE, wrote |-> TRUE]
    ELSE [content |-> Concat(r.new_lines), ret |-> TRUE, failed |-> FALSE,
          wrote |-> TRUE]

\* The end of fix_unused_import, r the outcome of its loop over the lines:
\* the content the call leaves on disk, the value it returns, whether it
\* raised (and caught) an exception, and whether it opened the file for writing.
WriteBack(content, r, io, bytes) ==
    IF io = "read_error" \/ ~Decodable(content)
    THEN [content |-> content, ret |-> FALSE, failed |-> TRUE, wrote |-> FALSE]
    ELSE IF ~r.modified
    THEN [content |-> content, ret |-> FALSE, failed |-> FALSE, wrote |-> FALSE]
    ELSE IF io = "open_error"
    THEN [content |-> content, ret |-> FALSE, failed |-> TRUE, wrote |-> FALSE]
    ELSE IF io = "write_error"
    THEN [content |-> Truncated(Concat(r.new_lines), bytes),
          ret |-> FALSE, failed |-> TRUE, wrote |-> TRUE]
    ELSE [content |-> Concat(r.new_lines), ret |-> TRUE, failed |-> FALSE,
          wrote |-> TRUE]

\* fix_unused_import(file_path, variable_name) on a file holding content
fix_unused_import(content, v, io, bytes) ==
    WriteBack(content, FixLines(ReadLines(content), v), io, bytes)

(***************************************************************************)
(* parse_unused_errors                                                     *)
(***************************************************************************)
\* "): error TS6133: '"
DiagMiddle == Str(<<")",":"," ","e","r","r","o","r"," ","T","S","6","1","3","3",":"," ","'">>)

\* "' is declared but its value is never read."
DiagTail == Str(<<"'"," ","i","s"," ","d","e","c","l","a","r","e","d"," ","b","u","t"," ",
              "i","t","s"," ","v","a","l","u","e"," ","i","s"," ","n","e","v","e","r"," ",
              "r","e","a","d",".">>)

\* what follows the file name:
\* \((\d+),(\d+)\): error TS6133: '(.*?)' is declared but its value is never read\.
DiagRestRe ==
    <<Lit(Str(<<"(">>)), Plus(Digits), Lit(Str(<<",">>)), Plus(Digits), Lit(DiagMiddle),
      DotStar, Lit(DiagTail)>>

\* error_output.split('\n')
Split(text) ==
    LET IsEnd(i) == text[i] = NL
        ends == SelectSeq(Indices(Len(text)), IsEnd)
        n == Len(ends)
    IN  [j \in 1..(n + 1) |->
           SubSeq(text, IF j = 1 THEN 1 ELSE ends[j - 1] + 1,
                        IF j <= n THEN ends[j] - 1 ELSE Len(text))]

\* sys.int_info.default_max_str_digits: the longest digit string int()
\* converts
IntMaxStrDigits == 4300

\* int(digits) raises ValueError
IntRaises(ds) == Len(ds) > IntMaxStrDigits

RECURSIVE ToInt(_)
\* int(digits), for digits it converts
ToInt(ds) ==
    IF ds = <<>> THEN 0
    ELSE 10 * ToInt(SubSeq(ds, 1, Len(ds) - 1)) + DigitValue(ds[Len(ds)])

\* mutant: the line and col groups taken in the wrong order
MatchDiag_SwappedGroups(line) ==
    LET starts == {p \in 1..Len(line) : Ends(DiagRestRe, 1, line, p) # {}} IN
    IF starts = {} THEN <<>>
    ELSE LET p == Min(starts)
             d1 == RunEnd(Plus(Digits), line, p + 1)
             d2 == RunEnd(Plus(Digits), line, d1 + 1)
             v1 == d2 + Len(DiagMiddle)
             v2 == Min({q \in v1..Len(line) : At(DiagTail, line, q)})
         IN  <<[file |-> SubSeq(line, 1, p - 1),
                line |-> SubSeq(line, d1 + 1, d2 - 1),
                col |-> SubSeq(line, p + 1, d1 - 1),
                variable |-> SubSeq(line, v1, v2 - 1)]>>

\* re.match of the diagnostic pattern on one line: no match, or the four
\* groups of the match.
\* (.*?) is lazy: the file name ends at the first "(" from which the rest of
\* the pattern matches, the variable at the first "'" followed by the tail.
MatchDiag(line) ==
    LET starts == {p \in 1..Len(line) : Ends(DiagRestRe, 1, line, p) # {}} IN
    IF starts = {} THEN <<>>
    ELSE LET p == Min(starts)
             d1 == RunEnd(Plus(Digits), line, p + 1)
             d2 == RunEnd(Plus(Digits), line, d1 + 1)
             v1 == d2 + Len(DiagMiddle)
             v2 == Min({q \in v1..Len(line) : At(DiagTail, line, q)})
         IN  <<[file |-> SubSeq(line, 1, p - 1),
                line |-> SubSeq(line, p + 1, d1 - 1),
                col |-> SubSeq(line, d1 + 1, d2 - 1),
                variable |-> SubSeq(line, v1, v2 - 1)]>>

\* the record appended for a match
Record(m) ==
    [file |-> m.file, line |-> ToInt(m.line), col |-> ToInt(m.col),
     variable |-> m.variable]

\* mutant: errors.insert(0, ...) in place of errors.append(...)
ParseLines_Prepend(lines) ==
    LET ms == [i \in 1..Len(lines) |-> MatchDiag(lines[i])]
        Matched(m) == m # <<>>
        found == SelectSeq(ms, Matched)
    IN  IF \E i \in 1..Len(found) :
             IntRaises(found[i][1].line) \/ IntRaises(found[i][1].col)
        THEN [raised |-> TRUE, errors |-> <<>>]
        ELSE [raised |-> FALSE,
              errors |-> [i \in 1..Len(found) |->
                            Record(found[Len(found) + 1 - i][1])]]

\* the loop over the lines of parse_unused_errors: the list it builds, or
\* (raised) the ValueError of int() that ends it
ParseLines(lines) ==
    LET ms == [i \in 1..Len(lines) |-> MatchDiag(lines[i])]
        Matched(m) == m # <<>>
        found == SelectSeq(ms, Matched)
    IN  IF \E i \in 1..Len(found) :
             IntRaises(found[i][1].line) \/ IntRaises(found[i][1].col)
        THEN [raised |-> TRUE, errors |-> <<>>]
        ELSE [raised |-> FALSE,
              errors |-> [i \in 1..Len(found) |-> Record(found[i][1])]]

\* parse_unused_errors(error_output): the records it returns, or (raised) the
\* exception that leaves it
parse_unused_errors(text) == ParseLines(Split(text))

(***************************************************************************)
(* main: grouping                                                          *)
(***************************************************************************)
RECURSIVE GroupInto_LastFileOnly(_, _)
\* mutant: a record joins the entry of its file only when that entry is the
\* last one made, as if the records came sorted by file
GroupInto_LastFileOnly(acc, errors) ==
    IF errors = <<>> THEN acc
    ELSE LET e == Head(errors) IN
         IF acc = <<>> \/ acc[Len(acc)].file # e.file
         THEN GroupInto_LastFileOnly(Append(acc, [file |-> e.file, errors |-> <<e>>]),
                                     Tail(errors))
         ELSE GroupInto_LastFileOnly([acc EXCEPT ![Len(acc)].errors = Append(@, e)],
                                     Tail(errors))

RECURSIVE GroupInto(_, _)
\* the loop that fills errors_by_file, a dict: its entries in insertion order
GroupInto(acc, errors) ==
    IF errors = <<>> THEN acc
    ELSE LET e == Head(errors)
             at == {i \in 1..Len(acc) : acc[i].file = e.file}
         IN  IF at = {}
             THEN GroupInto(Append(acc, [file |-> e.file, errors |-> <<e>>]),
                            Tail(errors))
             ELSE GroupInto([i \in 1..Len(acc) |->
                               IF i \in at
                               THEN [acc[i] EXCEPT !.errors = Append(@, e)]
                               ELSE acc[i]],
                            Tail(errors))

GroupByFile(errors) == GroupInto(<<>>, errors)

(***************************************************************************)
(* Source lines the editor is run on                                       *)
(***************************************************************************)
id_foo == Str(<<"f","o","o">>)

id_bar == Str(<<"b","a","r">>)

id_baz == Str(<<"b","a","z">>)

id_foobar == Str(<<"f","o","o","b","a","r">>)

\* "foo" followed by U+00E9 (e with acute accent): another identifier
id_fooe == id_foo \o <<233>>

\* an identifier that is also a keyword of the import statement
id_from == Str(<<"f","r","o","m">>)

\* an identifier that ends in a character that is not a word character
id_data == Str(<<"d","a","t","a","$">>)

mod_x == Str(<<"x">>)

mod_rxjs == Str(<<"r","x","j","s">>)

mod_foo == Str(<<".","/","f","o","o">>)

\* the identifiers fix_unused_import is called with
Targets == {id_foo, id_bar, id_from, id_data}

\* the identifiers the diagnostics of the pools name
Reported == {id_foo, id_bar}

RECURSIVE JoinNames(_)
\* 'a, b, c'
JoinNames(names) ==
    IF names = <<>> THEN <<>>
    ELSE IF Len(names) = 1 THEN names[1]
    ELSE names[1] \o Str(<<",", " ">>) \o JoinNames(Tail(names))

\* A line of TypeScript, by its shape:
\*   named        import { a, b } from 'm';
\*   default      import a from 'm';
\*   namespace    import * as a from 'm';
\*   mixed        import a, { b } from 'm';
\*   destructure  const { a, b } = obj;      (kw: const, let or var)
\*   decl         const a = 1;
\*   export       export default a;
\*   bare         import 'm';
\*   comment      // import a from 'm';
\* ws is the white space after `import` and before `from` in a default
\* import, eol the line terminator.
LineDesc(kind, names, mod, kw) ==
    [kind |-> kind, names |-> names, mod |-> mod, kw |-> kw, ws |-> <<32>>,
     eol |-> <<NL>>]

\* the line d ending in eol (CR NL, or CR alone)
EndingIn(d, eol) == [d EXCEPT !.eol = eol]

\* the default import d with ws for white space
SpacedBy(d, ws) == [d EXCEPT !.ws = ws]

Render(d) ==
    CASE d.kind = "named" ->
           Str(<<"i","m","p","o","r","t"," ","{"," ">>) \o JoinNames(d.names)
           \o Str(<<" ","}"," ","f","r","o","m"," ","'">>) \o d.mod \o Str(<<"'",";">>) \o d.eol
      [] d.kind = "default" ->
           kw_import \o d.ws \o d.names[1] \o d.ws
           \o Str(<<"f","r","o","m"," ","'">>) \o d.mod \o Str(<<"'",";">>) \o d.eol
      [] d.kind = "namespace" ->
           Str(<<"i","m","p","o","r","t"," ","*"," ","a","s"," ">>) \o d.names[1]
           \o Str(<<" ","f","r","o","m"," ","'">>) \o d.mod \o Str(<<"'",";">>) \o d.eol
      [] d.kind = "mixed" ->
           Str(<<"i","m","p","o","r","t"," ">>) \o d.names[1] \o Str(<<",", " ", "{", " ">>)
           \o JoinNames(Tail(d.names))
           \o Str(<<" ","}"," ","f","r","o","m"," ","'">>) \o d.mod \o Str(<<"'",";">>) \o d.eol
      [] d.kind = "destructure" ->
           d.kw \o Str(<<" ","{"," ">>) \o JoinNames(d.names)
           \o Str(<<" ","}"," ","="," ","o","b","j",";">>) \o d.eol
      [] d.kind = "decl" ->
           d.kw \o Str(<<" ">>) \o d.names[1] \o Str(<<" ","="," ","1",";">>) \o d.eol
      [] d.kind = "export" ->
           Str(<<"e","x","p","o","r","t"," ","d","e","f","a","u","l","t"," ">>)
           \o d.names[1] \o Str(<<";">>) \o d.eol
      [] d.kind = "bare" ->
           Str(<<"i","m","p","o","r","t"," ","'">>) \o d.mod \o Str(<<"'",";">>) \o d.eol
      [] d.kind = "comment" ->
           Str(<<"/","/"," ">>) \o kw_import \o d.ws \o d.names[1] \o d.ws
           \o Str(<<"f","r","o","m"," ","'">>) \o d.mod \o Str(<<"'",";">>) \o d.eol

NameLists == {<<id_foo>>, <<id_foo, id_bar>>, <<id_bar, id_foo, id_baz>>,
              <<id_fooe, id_bar>>}

\* U+00A0, no-break space: white space to TypeScript and to \s
NBSP == <<160>>

LinePool ==
    {LineDesc("named", ns, mod_x, kw_import) : ns \in NameLists}
    \cup {LineDesc("default", <<n>>, mod_x, kw_import) : n \in {id_foo, id_foobar}}
    \cup {EndingIn(LineDesc("default", <<id_foo>>, mod_x, kw_import), <<CR, NL>>),
          SpacedBy(LineDesc("default", <<id_foo>>, mod_x, kw_import), NBSP)}
    \cup {LineDesc("namespace", <<id_foo>>, mod_x, kw_import)}
    \cup {LineDesc("mixed", <<id_foo, id_bar>>, mod_x, kw_import)}
    \cup {LineDesc("destructure", <<id_foo, id_bar>>, mod_x, kw) :
            kw \in {kw_const, kw_let}}
    \cup {LineDesc("export", <<id_bar>>, mod_x, kw_import),
          EndingIn(LineDesc("export", <<id_bar>>, mod_x, kw_import), <<CR, NL>>)}
    \cup {EndingIn(LineDesc("bare", <<>>, mod_foo, kw_import), <<CR>>)}
    \cup {LineDesc("named", <<id_from>>, mod_rxjs, kw_import),
          LineDesc("named", <<id_data>>, mod_x, kw_import),
          LineDesc("named", <<id_bar>>, mod_x, kw_import),
          LineDesc("comment", <<id_foo>>, mod_x, kw_import)}

MaxLines == 2

\* the files: up to MaxLines lines of the pool, in any order
FileDescs == UNION {[1..n -> LinePool] : n \in 1..MaxLines}

RenderFile(ds) == Concat([i \in 1..Len(ds) |-> Render(ds[i])])

(***************************************************************************)
(* Diagnostics the type checker prints                                     *)
(***************************************************************************)
path_a == Str(<<"a",".","t","s">>)

path_b == Str(<<"b",".","t","s">>)

path_c == Str(<<"s","r","c","/","c","(","1",")",".","t","s">>)

RECURSIVE Format(_, _)
\* the decimal digits of a natural number, in the digits of the script whose
\* zero is `zero` (48: the ASCII digits the type checker prints)
Format(n, zero) ==
    IF n < 10 THEN <<zero + n>> ELSE Format(n \div 10, zero) \o <<zero + (n % 10)>>

\* A line of the type checker's output, by its shape:
\*   unused  <file>(<line>,<col>): error TS6133: '<variable>' is declared but its value is never read.
\*   unread  <file>(<line>,<col>): error TS6192: '<variable>' is declared but its value is never read.
\*   note    Found 2 errors.
\*   overlong  a TS6133 line whose line number has IntMaxStrDigits + 1 digits
DiagDesc(kind, file, line, col, variable) ==
    [kind |-> kind, file |-> file, line |-> line, col |-> col, variable |-> variable,
     zero |-> 48]

\* the diagnostic d with its numbers in the digits of another script
InDigits(d, zero) == [d EXCEPT !.zero = zero]

\* U+0660, ARABIC-INDIC DIGIT ZERO
ArabicIndicZero == 1632

RenderDiag(d) ==
    CASE d.kind = "unused" ->
           d.file \o Str(<<"(">>) \o Format(d.line, d.zero) \o Str(<<",">>)
           \o Format(d.col, d.zero)
           \o Str(<<")",":"," ","e","r","r","o","r"," ","T","S","6","1","3","3",":"," ","'">>)
           \o d.variable \o DiagTail
      [] d.kind = "unread" ->
           d.file \o Str(<<"(">>) \o Format(d.line, d.zero) \o Str(<<",">>)
           \o Format(d.col, d.zero)
           \o Str(<<")",":"," ","e","r","r","o","r"," ","T","S","6","1","9","2",":"," ","'">>)
           \o d.variable \o DiagTail
      [] d.kind = "note" ->
           Str(<<"F","o","u","n","d"," ","2"," ","e","r","r","o","r","s",".">>)
      [] d.kind = "overlong" ->
           d.file \o Str(<<"(">>) \o [i \in 1..(IntMaxStrDigits + 1) |-> d.zero + 9]
           \o Str(<<",">>) \o Format(d.col, d.zero)
           \o Str(<<")",":"," ","e","r","r","o","r"," ","T","S","6","1","3","3",":"," ","'">>)
           \o d.variable \o DiagTail

\* the type checker's stderr: every line followed by eol
RenderDiags(ds, eol) == Concat([i \in 1..Len(ds) |-> RenderDiag(ds[i]) \o eol])

Positions == {<<10, 5>>, <<7, 120>>}

\* the lines parse_unused_errors is run on
DiagPool ==
    {DiagDesc("unused", f, p[1], p[2], v) :
        f \in {path_a, path_c}, p \in Positions, v \in Reported}
    \cup {InDigits(DiagDesc("unused", path_a, 10, 5, id_foo), ArabicIndicZero)}
    \cup {DiagDesc("unread", path_a, 10, 5, id_foo), DiagDesc("note", <<>>, 0, 0, <<>>)}

\* the lines main is run on
MainDiagPool ==
    {DiagDesc("unused", path_a, 10, 5, v) : v \in Reported}
    \cup {DiagDesc("unused", path_b, 10, 5, id_foo)}
    \cup {DiagDesc("note", <<>>, 0, 0, <<>>)}

\* outputs that hold a line number int() does not convert
OverlongSeqs ==
    LET overlong == DiagDesc("overlong", path_a, 0, 5, id_foo) IN
    {<<overlong>>, <<DiagDesc("unused", path_b, 10, 5, id_foo), overlong>>}

MaxDiags == 3

DiagSeqs(pool) == UNION {[1..n -> pool] : n \in 0..MaxDiags}

\* the contents of a.ts and of b.ts when main starts
FilesA ==
    {<<LineDesc("default", <<id_foo>>, mod_x, kw_import),
       LineDesc("export", <<id_bar>>, mod_x, kw_import)>>}

FilesB ==
    {<<LineDesc("namespace", <<id_foo>>, mod_foo, kw_import),
       LineDesc("decl", <<id_foo>>, mod_x, kw_const)>>}

(***************************************************************************)
(* State                                                                   *)
(***************************************************************************)
VARIABLES
    pc,             \* where the run stands
    fs,             \* the files on disk: path -> content
    src,            \* the shapes of the lines the files (or the diagnostics) were written from
    error_output,   \* main: the type checker's stderr
    unused_errors,  \* main: the parsed diagnostic records
    errors_by_file, \* main: the records grouped by file, in insertion order
    cursor,         \* main: the (file, record) position of the nested loop
    fixed_count,    \* main: the number of calls that returned True
    calls           \* the calls of fix_unused_import made so far

vars == <<pc, fs, src, error_output, unused_errors, errors_by_file, cursor,
          fixed_count, calls>>

\* the record of one call of fix_unused_import
Call(file, v, before, r) ==
    [file |-> file, variable |-> v, before |-> before, after |-> r.content,
     ret |-> r.ret, failed |-> r.failed, wrote |-> r.wrote]

(***************************************************************************)
(* SpecFix: fix_unused_import applied to one file, then applied again      *)
(***************************************************************************)
InitFix ==
    /\ pc = "fix"
    /\ src \in FileDescs
    /\ fs = [p \in {path_a} |-> RenderFile(src)]
    /\ error_output = <<>>
    /\ unused_errors = <<>>
    /\ errors_by_file = <<>>
    /\ cursor = <<1, 1>>
    /\ fixed_count = 0
    /\ calls = <<>>

\* the first call, with any identifier and any behaviour of the file system
\* (a failed write leaves any proper prefix of the bytes of the new text)
FixFirst ==
    /\ pc = "fix"
    /\ calls = <<>>
    /\ \E v \in Targets :
         \E looped \in {FixLines(ReadLines(fs[path_a]), v)} :
         \E io \in IOKinds :
         \E bytes \in IF io = "write_error"
                      THEN 0..(ByteLen(Concat(looped.new_lines)) - 1) ELSE {0} :
           LET r == WriteBack(fs[path_a], looped, io, bytes) IN
           /\ fs' = [fs EXCEPT ![path_a] = r.content]
           /\ calls' = <<Call(path_a, v, fs[path_a], r)>>
    /\ UNCHANGED <<pc, src, error_output, unused_errors, errors_by_file, cursor,
                   fixed_count>>

\* the same call once more on the file the first call left
FixAgain ==
    /\ pc = "fix"
    /\ Len(calls) = 1
    /\ ~calls[1].failed
    /\ LET r == fix_unused_import(fs[path_a], calls[1].variable, "ok", 0) IN
         /\ fs' = [fs EXCEPT ![path_a] = r.content]
         /\ calls' = Append(calls, Call(path_a, calls[1].variable, fs[path_a], r))
    /\ pc' = "fixed_twice"
    /\ UNCHANGED <<src, error_output, unused_errors, errors_by_file, cursor,
                   fixed_count>>

NextFix == FixFirst \/ FixAgain

SpecFix == InitFix /\ [][NextFix]_vars

(***************************************************************************)
(* SpecParse: parse_unused_errors applied to a diagnostic text             *)
(***************************************************************************)
InitParse ==
    /\ pc = "collected"
    /\ src \in DiagSeqs(DiagPool)
    /\ \E eol \in {<<NL>>, <<CR, NL>>} : error_output = RenderDiags(src, eol)
    /\ fs = [p \in {path_a} |-> <<>>]
    /\ unused_errors = <<>>
    /\ errors_by_file = <<>>
    /\ cursor = <<1, 1>>
    /\ fixed_count = 0
    /\ calls = <<>>

\* unused_errors = parse_unused_errors(error_output); an exception that
\* leaves parse_unused_errors leaves main as well and ends the run
Parse ==
    /\ pc = "collected"
    /\ \E parsed \in {parse_unused_errors(error_output)} :
         IF parsed.raised
         THEN pc' = "crashed" /\ UNCHANGED unused_errors
         ELSE pc' = "parsed" /\ unused_errors' = parsed.errors
    /\ UNCHANGED <<fs, src, error_output, errors_by_file, cursor, fixed_count, calls>>

SpecParse == InitParse /\ [][Parse]_vars

(***************************************************************************)
(* Spec: main                                                              *)
(***************************************************************************)
Init ==
    /\ pc = "start"
    /\ src \in DiagSeqs(MainDiagPool) \cup OverlongSeqs
    /\ error_output = <<>>
    /\ \E a \in FilesA, b \in FilesB :
         fs = (path_a :> RenderFile(a)) @@ (path_b :> RenderFile(b))
    /\ unused_errors = <<>>
    /\ errors_by_file = <<>>
    /\ cursor = <<1, 1>>
    /\ fixed_count = 0
    /\ calls = <<>>

\* error_output = get_typescript_errors(): the type checker's stderr read as
\* text, whatever line terminator it uses, or "" when the subprocess cannot
\* be run
GetTypescriptErrors ==
    /\ pc = "start"
    /\ \/ \E eol \in {<<NL>>, <<CR, NL>>} :
            error_output' = UniversalNewlines(RenderDiags(src, eol))
       \/ error_output' = <<>>
    /\ pc' = "collected"
    /\ UNCHANGED <<fs, src, unused_errors, errors_by_file, cursor, fixed_count, calls>>

\* the loop that groups the records by file
Group ==
    /\ pc = "parsed"
    /\ errors_by_file' = GroupByFile(unused_errors)
    /\ cursor' = <<1, 1>>
    /\ fixed_count' = 0
    /\ pc' = "fixing"
    /\ UNCHANGED <<fs, src, error_output, unused_errors, calls>>

\* the loops have a record left to apply
AtFixCall == pc = "fixing" /\ cursor[1] <= Len(errors_by_file)

\* the loops have run out of records
AtSummary == pc = "fixing" /\ cursor[1] > Len(errors_by_file)

\* one iteration of the inner loop: the call for the record under the cursor
FixNext ==
    /\ AtFixCall
    /\ LET entry == errors_by_file[cursor[1]]
           file_path == entry.file
           v == entry.errors[cursor[2]].variable
       IN  /\ \E looped \in {FixLines(ReadLines(fs[file_path]), v)} :
               \E io \in IOKinds :
               \E bytes \in IF io = "write_error"
                            THEN 0..(ByteLen(Concat(looped.new_lines)) - 1) ELSE {0} :
                 LET r == WriteBack(fs[file_path], looped, io, bytes) IN
                 /\ fs' = [fs EXCEPT ![file_path] = r.content]
                 /\ calls' = Append(calls, Call(file_path, v, fs[file_path], r))
                 /\ fixed_count' = IF r.ret THEN fixed_count + 1 ELSE fixed_count
           /\ cursor' = IF cursor[2] < Len(entry.errors)
                        THEN <<cursor[1], cursor[2] + 1>>
                        ELSE <<cursor[1] + 1, 1>>
    /\ UNCHANGED <<pc, src, error_output, unused_errors, errors_by_file>>

\* the loops are over: the summary is printed
Summary ==
    /\ AtSummary
    /\ pc' = "done"
    /\ UNCHANGED <<fs, src, error_output, unused_errors, errors_by_file, cursor,
                   fixed_count, calls>>

Next == GetTypescriptErrors \/ Parse \/ Group \/ FixNext \/ Summary

Spec == Init /\ [][Next]_vars

\* both ways of running the editor: on one file twice, and from main
SpecBoth == (InitFix \/ Init) /\ [][NextFix \/ Next]_vars

(***************************************************************************)
(* Vocabulary of the claims                                                *)
(***************************************************************************)
Range(f) == {f[i] : i \in DOMAIN f}

RECURSIVE IsSubseq(_, _)
\* a is b with some elements left out
IsSubseq(a, b) ==
    IF a = <<>> THEN TRUE
    ELSE IF b = <<>> THEN FALSE
    ELSE IF Head(a) = Head(b) THEN IsSubseq(Tail(a), Tail(b))
    ELSE IsSubseq(a, Tail(b))

\* the line d with the name v taken out of its list
Without(d, v) ==
    LET Other(n) == n # v IN [d EXCEPT !.names = SelectSeq(d.names, Other)]

\* an import line whose only binding is v
SoleBinding(d, v) == d.kind \in {"named", "default", "namespace"} /\ d.names = <<v>>

\* one of the four shapes the editor is meant to handle for v
Recognised(d, v) ==
    \/ d.kind \in {"named", "destructure"} /\ v \in Range(d.names)
    \/ d.kind \in {"default", "namespace"} /\ d.names = <<v>>
    \/ d.kind = "mixed" /\ v \in Range(d.names)

\* a first call of fix_unused_import on the file written from src has
\* returned without an exception
Edited == pc \in {"fix", "fixed_twice"} /\ calls # <<>> /\ ~calls[1].failed

RECURSIVE FileLines(_)
\* the lines of a file as it is on disk, each with its terminator
\* (CR NL, NL, or CR alone)
FileLines(content) ==
    IF content = <<>> THEN <<>>
    ELSE LET ends == {i \in 1..Len(content) :
                        \/ content[i] = NL
                        \/ /\ content[i] = CR
                           /\ ~(i < Len(content) /\ content[i + 1] = NL)}
         IN  IF ends = {} THEN <<content>>
             ELSE <<SubSeq(content, 1, Min(ends))>>
                  \o FileLines(Tail_(content, Min(ends) + 1))

\* the text of a line, its terminator left off
Chomp(line) == LET Text(c) == c \notin {CR, NL} IN SelectSeq(line, Text)

\* the lines that call left in the file
EditedLines == FileLines(calls[1].after)

(***************************************************************************)
(* Claims about fix_unused_import, under SpecFix                           *)
(***************************************************************************)
\* C1: a named import list holding the target and at least one other name is
\* rewritten to the same line with only the target (and its comma) taken out:
\* `import { foo, bar } from 'x';` becomes exactly `import { bar } from 'x';`.
C1_NamedImportRewrittenExactly ==
    Edited =>
      \A i \in 1..Len(src) :
        (/\ src[i].kind = "named"
         /\ calls[1].variable \in Range(src[i].names)
         /\ Len(src[i].names) >= 2)
        => Render(Without(src[i], calls[1].variable)) \in Range(EditedLines)

\* C2: every import line whose only binding is the target (named list with
\* just the target, default import, namespace import) is removed from the
\* file; all other lines stay present and in their original order (those
\* that do not mention the target with their text, whatever their terminator).
C2_SoleBindingImportsRemoved ==
    Edited =>
      LET v == calls[1].variable
          Stays(d) == ~SoleBinding(d, v)
          kept == SelectSeq(src, Stays)
      IN  /\ Len(EditedLines) = Len(kept)
          /\ \A i \in 1..Len(kept) :
               ~Contains(v, Render(kept[i]))
               => Chomp(EditedLines[i]) = Chomp(Render(kept[i]))
          /\ \A i \in 1..Len(src) :
               SoleBinding(src[i], v)
               => \A j \in 1..Len(EditedLines) :
                    Chomp(EditedLines[j]) # Chomp(Render(src[i]))

\* C3: a destructuring declaration containing the target has the target
\* stripped from its pattern and the rest of the line preserved.
C3_DestructuringStripsIdentifier ==
    Edited =>
      \A i \in 1..Len(src) :
        (src[i].kind = "destructure" /\ calls[1].variable \in Range(src[i].names))
        => Render(Without(src[i], calls[1].variable)) \in Range(EditedLines)

\* C4: every line that is not one of the four recognised shapes for the
\* target is in the rewritten file unchanged, in the same relative order.
C4_UnrecognisedLinesUnchanged ==
    Edited =>
      LET v == calls[1].variable
          Unrecognised(d) == ~Recognised(d, v)
          others == SelectSeq(src, Unrecognised)
      IN  IsSubseq([i \in 1..Len(others) |-> Render(others[i])], EditedLines)

\* C8: without an I/O failure the file is written iff a line was changed or
\* removed, and the return value is True iff the content differs afterwards.
C8_ReturnTellsChange ==
    \A i \in 1..Len(calls) :
      (pc \in {"fix", "fixed_twice"} /\ ~calls[i].failed) =>
        /\ calls[i].wrote <=> (calls[i].after # calls[i].before)
        /\ calls[i].ret <=> (calls[i].after # calls[i].before)
        /\ ~calls[i].ret => (~calls[i].wrote /\ calls[i].after = calls[i].before)

\* C8 witness: one call changed the file and returned True, the next one
\* found nothing to change and returned False
C8_Witness ==
    /\ pc = "fixed_twice"
    /\ calls[1].ret /\ calls[1].after # calls[1].before /\ calls[1].after # <<>>
    /\ ~calls[2].ret /\ ~calls[2].wrote /\ calls[2].after = calls[2].before

(***************************************************************************)
(* Claims about parse_unused_errors, under SpecParse                       *)
(***************************************************************************)
\* the record a TS6133 line stands for
RecordOf(d) ==
    [file |-> d.file, line |-> d.line, col |-> d.col, variable |-> d.variable]

IsUnused(d) == d.kind = "unused"

\* the lines of the diagnostic text that have the TS6133 shape
MatchingLines == SelectSeq(src, IsUnused)

\* C5: for every line of the TS6133 shape the parser produces a record whose
\* file, line, col and variable are the four fields as written in the line
\* (line and col as integers), and it produces no other record.
C5_ParsedFieldsExact ==
    pc = "parsed" =>
      /\ \A i \in 1..Len(src) :
           IsUnused(src[i]) => RecordOf(src[i]) \in Range(unused_errors)
      /\ \A j \in 1..Len(unused_errors) :
           \E i \in 1..Len(src) :
             IsUnused(src[i]) /\ unused_errors[j] = RecordOf(src[i])

\* C5 witness: a record was parsed from a line whose file name holds
\* parentheses and whose column has three digits
C5_Witness ==
    /\ pc = "parsed"
    /\ \E j \in 1..Len(unused_errors) :
         /\ unused_errors[j].file = path_c
         /\ unused_errors[j].line = 7
         /\ unused_errors[j].col = 120
         /\ unused_errors[j].variable = id_bar

\* C6: the records correspond one-to-one to the matching lines, in the order
\* of those lines; the other lines contribute nothing.
C6_RecordsFollowMatchingLines ==
    pc = "parsed" =>
      /\ Len(unused_errors) = Len(MatchingLines)
      /\ \A i \in 1..Len(MatchingLines) :
           i <= Len(unused_errors) /\ unused_errors[i] = RecordOf(MatchingLines[i])

\* C6 witness: two different matching lines with a line of another shape
\* between them gave two records
C6_Witness ==
    /\ pc = "parsed"
    /\ Len(src) = 3
    /\ IsUnused(src[1]) /\ ~IsUnused(src[2]) /\ IsUnused(src[3])
    /\ src[1] # src[3]
    /\ Len(unused_errors) = 2

(***************************************************************************)
(* Claims about main, under Spec                                           *)
(***************************************************************************)
\* the (file, variable) pairs of a sequence of records or calls
Pairs(rs) == [i \in 1..Len(rs) |-> <<rs[i].file, rs[i].variable>>]

\* the records whose file appears in no earlier record
FirstOfFile(i) == \A j \in 1..(i - 1) : unused_errors[j].file # unused_errors[i].file

\* the records in the order main is meant to apply them: file by file, the
\* files by first appearance, the records of a file in diagnostic order
RECURSIVE PlanFrom(_)
PlanFrom(i) ==
    IF i > Len(unused_errors) THEN <<>>
    ELSE LET SameFile(e) == e.file = unused_errors[i].file IN
         (IF FirstOfFile(i) THEN SelectSeq(unused_errors, SameFile) ELSE <<>>)
         \o PlanFrom(i + 1)

Plan == PlanFrom(1)

ReturnedTrue == {i \in 1..Len(calls) : calls[i].ret}

\* C10: main calls fix_unused_import once per record, file by file in order
\* of first appearance and in diagnostic order within a file, and the count it
\* reports is the number of calls that returned True.
C10_OneCallPerRecordGroupedByFile ==
    pc \in {"fixing", "done"} =>
      /\ Len(calls) <= Len(Plan)
      /\ Pairs(calls) = Prefix(Pairs(Plan), Len(calls))
      /\ fixed_count = Cardinality(ReturnedTrue)
      /\ fixed_count <= Len(unused_errors)
      /\ pc = "done" => (Len(calls) = Len(unused_errors) /\ Len(Plan) = Len(unused_errors))

\* C10 witness: diagnostics for a.ts, b.ts, a.ts were applied as a.ts, a.ts,
\* b.ts, with one call returning True and one returning False
C10_Witness ==
    /\ pc = "done"
    /\ Len(unused_errors) = 3
    /\ unused_errors[1].file = path_a
    /\ unused_errors[2].file = path_b
    /\ unused_errors[3].file = path_a
    /\ unused_errors[1].variable # unused_errors[3].variable
    /\ Len(calls) = 3
    /\ calls[2].file = path_a /\ calls[3].file = path_b
    /\ fixed_count = 2

\* main is at its summary, or at a step it can take
Running ==
    \/ pc \in {"start", "collected", "parsed", "done"}
    \/ AtSummary
    \/ /\ AtFixCall
       /\ cursor[2] \in 1..Len(errors_by_file[cursor[1]].errors)
       /\ errors_by_file[cursor[1]].file \in DOMAIN fs

AnyFailed == \E i \in 1..Len(calls) : calls[i].failed

Last(sq) == sq[Len(sq)]

\* C7 as stated: a failed call returns False, is not counted, the file is
\* skipped (no later call of the run is for that file) and the run goes on to
\* the summary.
C7_FailedFileIsSkipped ==
    /\ \A i \in 1..Len(calls) : calls[i].failed => ~calls[i].ret
    /\ pc \in {"fixing", "done"} => fixed_count = Cardinality(ReturnedTrue)
    /\ \A i \in 1..Len(calls) : \A j \in (i + 1)..Len(calls) :
         calls[i].failed => calls[j].file # calls[i].file
    /\ AnyFailed => Running

\* C7 amended: a failed call returns False and is not counted, main goes on
\* with the next record (of the same file or of the next one), and the run
\* goes on to the summary, by which every record has had its call.
C7_FailedCallNotCountedRunContinues ==
    /\ [][(Len(calls') = Len(calls) + 1 /\ Last(calls').failed) =>
            /\ ~Last(calls').ret
            /\ fixed_count' = fixed_count
            /\ Pairs(calls') = Prefix(Pairs(Plan), Len(calls'))
            /\ AtFixCall' \/ AtSummary']_vars
    /\ [](AnyFailed =>
            /\ Running
            /\ fixed_count = Cardinality(ReturnedTrue)
            /\ pc = "done" => Len(calls) = Len(unused_errors))

\* C7 witness: the first call for a.ts failed, the second call for a.ts
\* edited the file, and the run reached the summary
C7_Witness ==
    /\ pc = "done"
    /\ Len(calls) >= 2
    /\ calls[1].failed /\ calls[1].file = path_a
    /\ calls[2].file = path_a /\ calls[2].ret
    /\ fixed_count >= 1

(***************************************************************************)
(* Idempotence, under SpecBoth                                             *)
(***************************************************************************)
\* C9: a second call with the same identifier on the file the first call
\* left returns False and leaves the content as it is; and a run with no
\* diagnostic makes no call, edits no file and reports 0 fixes.
C9_FixIdempotent ==
    /\ \A i \in 1..(Len(calls) - 1) :
         (/\ calls[i + 1].file = calls[i].file
          /\ calls[i + 1].variable = calls[i].variable
          /\ ~calls[i].failed /\ ~calls[i + 1].failed)
         => (/\ ~calls[i + 1].ret
             /\ ~calls[i + 1].wrote
             /\ calls[i + 1].after = calls[i].after)
    /\ (pc = "done" /\ unused_errors = <<>>) =>
         /\ calls = <<>>
         /\ fixed_count = 0
         /\ \E a \in FilesA, b \in FilesB :
              fs = (path_a :> RenderFile(a)) @@ (path_b :> RenderFile(b))

\* C9 witness: the first call rewrote a line and kept it, the second call
\* with the same identifier changed nothing
C9_Witness ==
    /\ Len(calls) = 2
    /\ calls[2].file = calls[1].file /\ calls[2].variable = calls[1].variable
    /\ calls[1].ret /\ calls[1].after # <<>>
    /\ Len(ReadLines(calls[1].after)) = Len(ReadLines(calls[1].before))
    /\ ~calls[1].failed /\ ~calls[2].failed
    /\ ~calls[2].ret /\ calls[2].after = calls[1].after

====
